---- MODULE Spec2Model ----
(***************************************************************************)
(* Model of the zipdf conversion pipeline:                                 *)
(*   converterController.convertToPdf -> fileService.processFiles          *)
(*     -> zipService.extractAndProcessImages | fileService.processImage    *)
(*     -> pdfService.generatePDF -> response.                              *)
(* One request is one sequential async pipeline; pc is the await point the *)
(* request is at.                                                          *)
(* Spec and SpecOptions follow one request, SpecZip one extraction,        *)
(* SpecTwo two requests sharing the clock and the names under tmp, and     *)
(* SpecSweep storage.cleanupOldFiles against the files of requests,       *)
(* SpecRelease the two release functions against concurrent deletion,      *)
(* SpecLayout the geometry of one page of generatePDF, and SpecFormats one *)
(* request over the declared formats, entry names and image dimensions.    *)
(***************************************************************************)
EXTENDS Integers, Sequences, FiniteSets, TLC

\* ------------------------------------------------------------------ bounds
\* longest batch of uploads of one request that is explored
MaxFiles == 3
\* most entries of an archive that are explored
MaxEntries == 2
\* last millisecond of the clock two concurrent requests are explored on
MaxClock == 2
\* most entries under tmp the sweep is explored with
MaxPaths == 2
\* most calls of a release function that run together
MaxCalls == 2

\* --------------------------------------------------------------- constants
\* const oneHourAgo = now - 3600000
OneHourMs == 3600000
\* setInterval(cleanupOldFiles, 3600000)
SweepIntervalMs == 3600000

\* ----------------------------------------------------------- file contents
\* What the bytes of a file (an upload or an archive entry) are.
\*   kind "empty"     : zero bytes
\*   kind "img"       : an image sharp decodes; width/height from its header
\*                      (0 stands for a dimension sharp reports as undefined)
\*   kind "truncated" : header readable, pixel data not (toBuffer rejects)
\*   kind "garbage"   : neither an image nor a ZIP container
\*   kind "zip"       : a well-formed ZIP container holding `entries`
Bytes(kind, width, height, entries) ==
  [kind |-> kind, width |-> width, height |-> height, entries |-> entries]

ImgOK     == Bytes("img", 800, 600, <<>>)
ImgNoDims == Bytes("img", 0, 600, <<>>)
Truncated == Bytes("truncated", 800, 600, <<>>)
Garbage   == Bytes("garbage", 0, 0, <<>>)
Empty     == Bytes("empty", 0, 0, <<>>)
Archive(entries) == Bytes("zip", 0, 0, entries)

\* stats.size === 0 / content.length === 0
Size0(data) == data.kind = "empty"

\* sharp(...).metadata() rejects on bytes that are no image
MetadataThrows(data) == data.kind \notin {"img", "truncated"}
\* sharp(...).toBuffer() rejects when the pixel data cannot be decoded
ToBufferThrows(data) == data.kind # "img"
\* JSZip.loadAsync rejects on bytes that are no ZIP container
LoadAsyncThrows(data) == data.kind # "zip"

\* String.prototype.toLowerCase on the extensions that occur
ToLowerCase(ext) ==
  CASE ext = ".JPG" -> ".jpg"
    [] ext = ".PNG" -> ".png"
    [] ext = ".ZIP" -> ".zip"
    [] OTHER -> ext

\* ------------------------------------------------------------ archive entries
\* One entry of zipContents.files, in Object.entries order.
\*   dir      : zipEntry.dir
\*   ext      : path.extname(path.basename(relativePath)), as written
\*   readable : zipEntry.async('nodebuffer') resolves
Entry(dir, ext, readable, data) ==
  [dir |-> dir, ext |-> ext, readable |-> readable, data |-> data]

DirEntry == Entry(TRUE, "", TRUE, Empty)

\* every kind of entry (extractAndProcessImages on its own)
EntryKinds ==
  {DirEntry, Entry(FALSE, ".jpg", FALSE, ImgOK)}
  \cup {Entry(FALSE, e, TRUE, d) :
          e \in {".jpg", ".PNG", ".webp", ".txt"},
          d \in {ImgOK, ImgNoDims, Truncated, Garbage, Empty}}

\* the archives that travel through a whole request
ImgEntry == Entry(FALSE, ".jpg", TRUE, ImgOK)
TxtEntry == Entry(FALSE, ".txt", TRUE, Garbage)
BadEntry == Entry(FALSE, ".jpg", TRUE, Garbage)
RequestArchives ==
  {Archive(es) : es \in {<<>>, <<TxtEntry>>, <<ImgEntry>>,
                         <<ImgEntry, ImgEntry>>, <<BadEntry, ImgEntry>>}}

\* all sequences over S of length at most n
RECURSIVE SeqsUpTo(_, _)
SeqsUpTo(S, n) ==
  IF n = 0 THEN {<<>>}
  ELSE LET shorter == SeqsUpTo(S, n - 1)
       IN  shorter \cup {Append(s, x) : s \in shorter, x \in S}

\* ------------------------------------------------------------------ uploads
\* One Express.Multer.File of req.files.
\*   ext      : path.extname(file.originalname), as written
\*   mimetype : file.mimetype (declared by the client)
\*   present  : the temp file file.path still exists when processing starts
\*   data     : what the temp file holds
Upload(ext, mimetype, present, data) ==
  [ext |-> ext, mimetype |-> mimetype, present |-> present, data |-> data]

LooseKinds ==
  {Upload(".jpg", "image/jpeg", TRUE, d) : d \in {ImgOK, ImgNoDims, Garbage, Empty}}
  \cup {Upload(".jpg", "image/jpeg", FALSE, ImgOK),
        Upload(".PNG", "image/png", TRUE, ImgOK),
        Upload(".webp", "image/png", TRUE, ImgOK),
        Upload(".jpg", "application/octet-stream", TRUE, ImgOK),
        Upload(".jpg", "image/webp", TRUE, ImgOK)}

ArchiveKinds ==
  {Upload(".zip", "application/zip", TRUE, Garbage)}
  \cup {Upload(".zip", "application/zip", TRUE, a) : a \in RequestArchives}

UploadKinds == LooseKinds \cup ArchiveKinds

\* the archives given to extractAndProcessImages on its own
ArchiveKindsFull ==
  {Upload(".zip", "application/zip", TRUE, d) : d \in {Garbage, Empty}}
  \cup {Upload(".zip", "application/zip", FALSE, Archive(<<>>))}
  \cup {Upload(".ZIP", "application/zip", TRUE, Archive(es)) :
          es \in SeqsUpTo(EntryKinds, MaxEntries)}

\* ---------------------------------------------------- multer upload boundary
\* fileFilter: the content types it lets in
allowedMimes ==
  {"image/jpeg", "image/png", "image/gif", "image/bmp", "image/tiff",
   "application/zip", "application/x-zip-compressed", "application/octet-stream"}

\* fileFilter: the extensions it lets in as images
filterImageExtensions == {".jpg", ".jpeg", ".png", ".gif", ".bmp", ".tiff"}

\* fileFilter(req, file, cb): TRUE is cb(null, true), FALSE is cb(new Error(...))
fileFilter(file) ==
  IF ToLowerCase(file.ext) = ".zip" THEN TRUE
  ELSE IF ToLowerCase(file.ext) \in filterImageExtensions THEN TRUE
  ELSE file.mimetype \in allowedMimes

VARIABLES
  files,            \* req.files
  body,             \* req.body
  pc,               \* the await point the request is at
  i,                \* processFiles: index of the upload of this iteration
  processedImages,  \* processFiles: the list being built
  uploadsDir,       \* tmp/uploads: indexes of the uploads whose temp file exists
  log,              \* history: what was done to which upload, in order
  zipImages,        \* extractAndProcessImages: its processedImages
  j,                \* extractAndProcessImages: index of the entry of this iteration
  zipError,         \* extractAndProcessImages: the error being thrown, or NoError
  extractedDir,     \* tmp/extracted: the scratch directories that exist
  dirsMade,         \* history: scratch directories created so far
  pages,            \* generatePDF: pages of the document so far
  outputDir,        \* tmp/output: the documents that exist
  pdfCalls,         \* history: number of calls of generatePDF
  pdfStream,        \* generatePDF: state of the write stream on outputPath
  delivery,         \* controller: state of the read stream piped into res
  response,         \* what res has been given
  now,              \* concurrent requests: Date.now(), in milliseconds
  reqs,             \* concurrent requests: where each is and the names it took
  disk,             \* concurrent requests: the paths that exist under tmp
  tmp,              \* sweep: the entries of tmp/uploads, tmp/output, tmp/extracted
  sweep,            \* sweep: the timer and the run of cleanupOldFiles under way
  rel,              \* release: the paths that exist and the calls of a release function
  layout            \* generatePDF: the placement of one image on its page

vars == <<files, body, pc, i, processedImages, uploadsDir, log, zipImages, j, zipError,
          extractedDir, dirsMade, pages, outputDir, pdfCalls, pdfStream, delivery,
          response, now, reqs, disk, tmp, sweep, rel, layout>>

\* the state of the release calls and of the placement taken on their own
Apart == <<rel, layout>>

\* the state of the concurrent requests and of the sweep
Outside == <<now, reqs, disk, tmp, sweep, Apart>>

\* the entries of the managed directories that are told apart
Paths == 1..MaxPaths

\* the calls of storage.cleanupFile / fileService.cleanupTempFiles told apart
Calls == 1..MaxCalls

\* a call that has not been made yet
NotCalled == [fn |-> "none", path |-> 0, pc |-> "idle", threw |-> FALSE, logged |-> FALSE]

\* no image placed yet
NoLayout == [phase |-> "none"]

\* a path no entry exists at
NoEntry == [kind |-> "none", owner |-> "none", age |-> 0]

\* no run of cleanupOldFiles under way, `since` milliseconds after the timer
\* last fired.  listed: readdir has called back; todo: entries whose stat is
\* pending; doomed: entries whose unlink or rm is pending
Idle(since) == [since |-> since, running |-> FALSE, listed |-> FALSE, todo |-> {}, doomed |-> {}]

\* two calls of convertToPdf in flight together
Requests == {1, 2}

\* a name the request has not taken yet
None == <<>>

\* a request multer has not stored yet
Arriving == [pc |-> "arrive", upload |-> None, extractDir |-> None, outputPath |-> None]


\* ------------------------------------------------------- conversion options
\* a form field the request does not carry (req.body.<field> is undefined)
Absent == ""

\* mutant: "low" and "high" are exchanged
QualityOf_Swapped(imageQuality) ==
  LET chosen == IF imageQuality = Absent THEN "medium" ELSE imageQuality
  IN  IF chosen = "high" THEN 50
      ELSE IF chosen = "low" THEN 100
      ELSE 80

\* const imageQuality = req.body.imageQuality || "medium"; let qualityValue = 80;
\* "high" -> 100, "low" -> 50
QualityOf(imageQuality) ==
  LET chosen == IF imageQuality = Absent THEN "medium" ELSE imageQuality
  IN  IF chosen = "high" THEN 100
      ELSE IF chosen = "low" THEN 50
      ELSE 80

\* options.quality, as processFiles and extractAndProcessImages receive it
qualityValue == QualityOf(body.imageQuality)

\* ------------------------------------------------------------ ProcessedImage
\* buffer   : the re-encoded bytes: which source they come from, which encoder
\*            at which quality
\* filename : file.originalname / the entry's base name: source and extension
\* src is <<i>> for upload i and <<i, j>> for entry j of the archive upload i
ProcessedImage(src, ext, enc, data) ==
  [buffer   |-> [of |-> src, enc |-> enc, quality |-> qualityValue],
   filename |-> <<src, ext>>,
   width    |-> data.width,
   height   |-> data.height]

\* mutant: image/webp is not told apart from the unknown types
EncoderByMime_NoWebp(mimetype) ==
  IF mimetype \in {"image/jpeg", "image/jpg"} THEN "jpeg"
  ELSE IF mimetype = "image/png" THEN "png"
  ELSE "jpeg"

\* fileService.processImage: encoder chosen from the declared content type
EncoderByMime(mimetype) ==
  IF mimetype \in {"image/jpeg", "image/jpg"} THEN "jpeg"
  ELSE IF mimetype = "image/png" THEN "png"
  ELSE IF mimetype = "image/webp" THEN "webp"
  ELSE "jpeg"

\* zipService: encoder chosen from the entry's lower-cased extension
EncoderByExt(ext) ==
  IF ext \in {".jpg", ".jpeg"} THEN "jpeg"
  ELSE IF ext = ".png" THEN "png"
  ELSE IF ext = ".webp" THEN "webp"
  ELSE "jpeg"

\* mutant: the dimensions are not looked at
processImage_AnyDimensions(file, src) ==
  IF MetadataThrows(file.data) THEN <<>>
  ELSE IF ToBufferThrows(file.data) THEN <<>>
  ELSE <<ProcessedImage(src, file.ext, EncoderByMime(file.mimetype), file.data)>>

\* fileService.processImage(file): <<>> is null, <<img>> a ProcessedImage
processImage(file, src) ==
  IF MetadataThrows(file.data) THEN <<>>
  ELSE IF file.data.width = 0 \/ file.data.height = 0 THEN <<>>
  ELSE IF ToBufferThrows(file.data) THEN <<>>
  ELSE <<ProcessedImage(src, file.ext, EncoderByMime(file.mimetype), file.data)>>

\* the extensions processFiles sends to processImage
LooseImageExtensions == {".jpg", ".jpeg", ".png", ".gif", ".bmp", ".tiff"}

\* the extensions extractAndProcessImages treats as images
imageExtensions == {".jpg", ".jpeg", ".png", ".gif", ".bmp", ".tiff", ".webp"}

\* processFiles: const isZip = ...
isZip(file) ==
  \/ ToLowerCase(file.ext) = ".zip"
  \/ file.mimetype = "application/zip"
  \/ file.mimetype = "application/x-zip-compressed"
  \/ file.mimetype = "application/octet-stream"

\* mutant: the extension of an entry is compared without lower-casing it
ExtractEntry_CaseSensitive(entry, src) ==
  IF entry.dir THEN <<>>
  ELSE IF ~entry.readable THEN <<>>
  ELSE IF entry.ext \notin imageExtensions THEN <<>>
  ELSE IF Size0(entry.data) THEN <<>>
  ELSE IF MetadataThrows(entry.data) THEN <<>>
  ELSE IF entry.data.width = 0 \/ entry.data.height = 0 THEN <<>>
  ELSE IF ToBufferThrows(entry.data) THEN <<>>
  ELSE <<ProcessedImage(src, entry.ext, EncoderByExt(ToLowerCase(entry.ext)), entry.data)>>

\* body of the entry loop of extractAndProcessImages for one entry:
\* what it pushes on processedImages (nothing, or one image)
ExtractEntry(entry, src) ==
  IF entry.dir THEN <<>>
  ELSE IF ~entry.readable THEN <<>>
  ELSE IF ToLowerCase(entry.ext) \notin imageExtensions THEN <<>>
  ELSE IF Size0(entry.data) THEN <<>>
  ELSE IF MetadataThrows(entry.data) THEN <<>>
  ELSE IF entry.data.width = 0 \/ entry.data.height = 0 THEN <<>>
  ELSE IF ToBufferThrows(entry.data) THEN <<>>
  ELSE <<ProcessedImage(src, entry.ext, EncoderByExt(ToLowerCase(entry.ext)), entry.data)>>

\* the scratch directory of the extraction of upload n: tmp/extracted/zip_<Date.now()>
\* (the extractions of one request never overlap, so the n-th one stands for its timestamp)
ExtractDir(n) == <<"zip", n>>

\* new Error(`<message>: ${zipFilePath or its basename}`), for the file of upload n
ZipFailure(message, n) == <<message, n>>
NoError == <<>>

NoResponse == [status |-> 0, success |-> FALSE, message |-> "", body |-> "none"]

\* --------------------------------------------------------------------- Init
InitLocals ==
  /\ i = 1
  /\ processedImages = <<>>
  /\ log = <<>>
  /\ zipImages = <<>>
  /\ j = 1
  /\ zipError = NoError
  /\ extractedDir = {}
  /\ dirsMade = {}
  /\ pages = <<>>
  /\ outputDir = {}
  /\ pdfCalls = 0
  /\ pdfStream = "none"
  /\ delivery = "none"
  /\ response = NoResponse
  /\ now = 0
  /\ reqs = [r \in Requests |-> Arriving]
  /\ disk = {}
  /\ tmp = [p \in Paths |-> NoEntry]
  /\ sweep = Idle(0)
  /\ rel = [disk |-> {}, calls |-> [c \in Calls |-> NotCalled]]
  /\ layout = NoLayout

\* a request arrives at converterController.convertToPdf; multer has stored
\* each upload under tmp/uploads (present = FALSE: the file was lost since)
Init ==
  /\ files \in SeqsUpTo({u \in UploadKinds : fileFilter(u)}, MaxFiles)
  /\ body \in [showFilenames : {"true", "false"}, imageQuality : {Absent}]
  /\ uploadsDir = {n \in 1..Len(files) : files[n].present}
  /\ pc = "ctl_start"
  /\ InitLocals

\* ------------------------------------------------------- fileService.processFiles
ZipLocals == <<zipImages, j, zipError, extractedDir, dirsMade>>
PdfLocals == <<pages, outputDir, pdfCalls, pdfStream, delivery, Outside>>

\* the iteration of upload i begins
BeginUpload ==
  /\ pc = "pf_loop"
  /\ i <= Len(files)
  /\ log' = Append(log, <<"process", i>>)
  /\ UNCHANGED <<files, body, i, uploadsDir, response>>
  /\ UNCHANGED PdfLocals

\* mutant: the rejection of stat leaves processFiles (stat outside the try)
PF_StatFails_Propagates ==
  /\ BeginUpload
  /\ i \notin uploadsDir
  /\ pc' = "ctl_catch"
  /\ UNCHANGED processedImages
  /\ UNCHANGED ZipLocals

\* fs.promises.stat(file.path) rejects: caught by the catch of the iteration
PF_StatFails ==
  /\ BeginUpload
  /\ i \notin uploadsDir
  /\ pc' = "pf_finally"
  /\ UNCHANGED processedImages
  /\ UNCHANGED ZipLocals

\* mutant: the continue of an empty file leaves the iteration without its finally
PF_EmptyFile_NoRelease ==
  /\ pc = "pf_loop"
  /\ i <= Len(files)
  /\ i \in uploadsDir
  /\ Size0(files[i].data)
  /\ log' = Append(log, <<"process", i>>)
  /\ i' = i + 1
  /\ UNCHANGED <<files, body, pc, processedImages, uploadsDir, response>>
  /\ UNCHANGED ZipLocals
  /\ UNCHANGED PdfLocals

\* stats.size === 0: continue
PF_EmptyFile ==
  /\ BeginUpload
  /\ i \in uploadsDir
  /\ Size0(files[i].data)
  /\ pc' = "pf_finally"
  /\ UNCHANGED processedImages
  /\ UNCHANGED ZipLocals

\* isZip: call zipService.extractAndProcessImages(file.path, options)
PF_CallZip ==
  /\ BeginUpload
  /\ i \in uploadsDir
  /\ ~Size0(files[i].data)
  /\ isZip(files[i])
  /\ pc' = "zip_open"
  /\ zipImages' = <<>>
  /\ j' = 1
  /\ zipError' = NoError
  /\ UNCHANGED <<processedImages, extractedDir, dirsMade>>

\* mutant: an image that yields nothing ends the loop (the error handling
\* wraps the loop, not the iteration)
PF_Image_Abort ==
  /\ BeginUpload
  /\ i \in uploadsDir
  /\ ~Size0(files[i].data)
  /\ ~isZip(files[i])
  /\ ToLowerCase(files[i].ext) \in LooseImageExtensions
  /\ processedImages' = processedImages \o processImage(files[i], <<i>>)
  /\ pc' = IF processImage(files[i], <<i>>) = <<>> THEN "ctl_processed" ELSE "pf_finally"
  /\ UNCHANGED ZipLocals

\* an image extension: processImage, push a non-null result
PF_Image ==
  /\ BeginUpload
  /\ i \in uploadsDir
  /\ ~Size0(files[i].data)
  /\ ~isZip(files[i])
  /\ ToLowerCase(files[i].ext) \in LooseImageExtensions
  /\ processedImages' = processedImages \o processImage(files[i], <<i>>)
  /\ pc' = "pf_finally"
  /\ UNCHANGED ZipLocals

\* any other extension: logged and skipped
PF_Unsupported ==
  /\ BeginUpload
  /\ i \in uploadsDir
  /\ ~Size0(files[i].data)
  /\ ~isZip(files[i])
  /\ ToLowerCase(files[i].ext) \notin LooseImageExtensions
  /\ pc' = "pf_finally"
  /\ UNCHANGED processedImages
  /\ UNCHANGED ZipLocals

\* mutant: the extracted images are put in front of the list (unshift for push)
PF_ZipReturned_Unshift ==
  /\ pc = "zip_returned"
  /\ processedImages' = zipImages \o processedImages
  /\ pc' = "pf_finally"
  /\ UNCHANGED <<files, body, i, uploadsDir, log, response>>
  /\ UNCHANGED ZipLocals
  /\ UNCHANGED PdfLocals

\* extractAndProcessImages resolved: processedImages.push(...extractedImages)
PF_ZipReturned ==
  /\ pc = "zip_returned"
  /\ processedImages' = processedImages \o zipImages
  /\ pc' = "pf_finally"
  /\ UNCHANGED <<files, body, i, uploadsDir, log, response>>
  /\ UNCHANGED ZipLocals
  /\ UNCHANGED PdfLocals

\* mutant: the rejection of extractAndProcessImages leaves processFiles
PF_ZipThrew_Propagates ==
  /\ pc = "zip_threw"
  /\ pc' = "ctl_catch"
  /\ UNCHANGED <<files, body, i, processedImages, uploadsDir, log, response>>
  /\ UNCHANGED ZipLocals
  /\ UNCHANGED PdfLocals

\* extractAndProcessImages rejected: catch (zipError), logged
PF_ZipThrew ==
  /\ pc = "zip_threw"
  /\ pc' = "pf_finally"
  /\ UNCHANGED <<files, body, i, processedImages, uploadsDir, log, response>>
  /\ UNCHANGED ZipLocals
  /\ UNCHANGED PdfLocals

\* fs.promises.unlink(file.path): removes the temp file, or rejects (caught)
\* when it is not there
Unlink(dir, n) == dir \ {n}

\* finally { unlink(file.path) }, then the next iteration
PF_Finally ==
  /\ pc = "pf_finally"
  /\ uploadsDir' = Unlink(uploadsDir, i)
  /\ log' = Append(log, <<"unlink", i>>)
  /\ i' = i + 1
  /\ pc' = "pf_loop"
  /\ UNCHANGED <<files, body, processedImages, response>>
  /\ UNCHANGED ZipLocals
  /\ UNCHANGED PdfLocals

\* the loop is over: return processedImages
PF_Return ==
  /\ pc = "pf_loop"
  /\ i > Len(files)
  /\ pc' = "ctl_processed"
  /\ UNCHANGED <<files, body, i, processedImages, uploadsDir, log, response>>
  /\ UNCHANGED ZipLocals
  /\ UNCHANGED PdfLocals

\* ------------------------------------------- zipService.extractAndProcessImages
ZipFrame == <<files, body, i, processedImages, uploadsDir, log, response>>

\* existsSync / statSync checks, then ensureDir(extractDir)
Zip_Open ==
  /\ pc = "zip_open"
  /\ IF i \notin uploadsDir
       THEN /\ zipError' = ZipFailure("ZIP file doesn't exist", i)
            /\ pc' = "zip_threw"
            /\ UNCHANGED <<extractedDir, dirsMade>>
     ELSE IF Size0(files[i].data)
       THEN /\ zipError' = ZipFailure("ZIP file is empty", i)
            /\ pc' = "zip_threw"
            /\ UNCHANGED <<extractedDir, dirsMade>>
     ELSE /\ extractedDir' = extractedDir \cup {ExtractDir(i)}
          /\ dirsMade' = dirsMade \cup {ExtractDir(i)}
          /\ pc' = "zip_load"
          /\ UNCHANGED zipError
  /\ UNCHANGED <<zipImages, j>>
  /\ UNCHANGED ZipFrame
  /\ UNCHANGED PdfLocals

\* mutant: the load and count checks throw from outside the try/finally
Zip_Load_NoFinally ==
  /\ pc = "zip_load"
  /\ IF LoadAsyncThrows(files[i].data)
       THEN /\ zipError' = ZipFailure("Invalid or corrupted ZIP file", i)
            /\ pc' = "zip_threw"
     ELSE IF Len(files[i].data.entries) = 0
       THEN /\ zipError' = ZipFailure("ZIP file is empty", i)
            /\ pc' = "zip_threw"
     ELSE /\ pc' = "zip_entry"
          /\ UNCHANGED zipError
  /\ UNCHANGED <<zipImages, j, extractedDir, dirsMade>>
  /\ UNCHANGED ZipFrame
  /\ UNCHANGED PdfLocals

\* readFile, JSZip.loadAsync, the fileCount check
Zip_Load ==
  /\ pc = "zip_load"
  /\ IF LoadAsyncThrows(files[i].data)
       THEN /\ zipError' = ZipFailure("Invalid or corrupted ZIP file", i)
            /\ pc' = "zip_finally"
     ELSE IF Len(files[i].data.entries) = 0
       THEN /\ zipError' = ZipFailure("ZIP file is empty", i)
            /\ pc' = "zip_finally"
     ELSE /\ pc' = "zip_entry"
          /\ UNCHANGED zipError
  /\ UNCHANGED <<zipImages, j, extractedDir, dirsMade>>
  /\ UNCHANGED ZipFrame
  /\ UNCHANGED PdfLocals

\* mutant: an image takes the place of the images pushed before it
Zip_Entry_LastWins ==
  /\ pc = "zip_entry"
  /\ j <= Len(files[i].data.entries)
  /\ LET pushed == ExtractEntry(files[i].data.entries[j], <<i, j>>)
     IN  zipImages' = IF pushed = <<>> THEN zipImages ELSE pushed
  /\ j' = j + 1
  /\ UNCHANGED <<pc, zipError, extractedDir, dirsMade>>
  /\ UNCHANGED ZipFrame
  /\ UNCHANGED PdfLocals

\* one iteration of for (const [relativePath, zipEntry] of Object.entries(...))
Zip_Entry ==
  /\ pc = "zip_entry"
  /\ j <= Len(files[i].data.entries)
  /\ zipImages' = zipImages \o ExtractEntry(files[i].data.entries[j], <<i, j>>)
  /\ j' = j + 1
  /\ UNCHANGED <<pc, zipError, extractedDir, dirsMade>>
  /\ UNCHANGED ZipFrame
  /\ UNCHANGED PdfLocals

\* mutant: imageCount === 0 throws instead of warning
Zip_EndLoop_ThrowsWhenNoImage ==
  /\ pc = "zip_entry"
  /\ j > Len(files[i].data.entries)
  /\ pc' = "zip_finally"
  /\ zipError' = IF zipImages = <<>>
                   THEN ZipFailure("ZIP file doesn't contain any valid images", i)
                   ELSE zipError
  /\ UNCHANGED <<zipImages, j, extractedDir, dirsMade>>
  /\ UNCHANGED ZipFrame
  /\ UNCHANGED PdfLocals

\* the entry loop is over
Zip_EndLoop ==
  /\ pc = "zip_entry"
  /\ j > Len(files[i].data.entries)
  /\ pc' = "zip_finally"
  /\ UNCHANGED ZipLocals
  /\ UNCHANGED ZipFrame
  /\ UNCHANGED PdfLocals

\* fsExtra.remove(dir)
Remove(dirs, d) == dirs \ {d}

\* finally { fsExtra.remove(extractDir) }, then return, or rethrow from the
\* outer catch
Zip_Finally ==
  /\ pc = "zip_finally"
  /\ extractedDir' = Remove(extractedDir, ExtractDir(i))
  /\ pc' = IF zipError = NoError THEN "zip_returned" ELSE "zip_threw"
  /\ UNCHANGED <<zipImages, j, zipError, dirsMade>>
  /\ UNCHANGED ZipFrame
  /\ UNCHANGED PdfLocals


\* ---------------------------------------------------- pdfService.generatePDF
\* the formats PDFKit's doc.image embeds; on any other buffer it throws
Embeddable(enc) == enc \in {"jpeg", "png"}

\* outputPath of the n-th call: tmp/output/converted_<timestamp>.pdf
OutputPath(n) == <<"converted", n>>

\* options.showFilenames as the controller computes it
showFilenames == body.showFilenames = "true"

\* mutant: the footer prints the 0-based index
Page_ZeroBased(images, n, captions) ==
  [image   |-> <<images[n].buffer>>,
   caption |-> IF captions THEN <<images[n].filename>> ELSE <<>>,
   footer  |-> <<n - 1, Len(images)>>]

\* the page of images[n]: image drawn, caption if requested, footer
Page(images, n, captions) ==
  [image   |-> <<images[n].buffer>>,
   caption |-> IF captions THEN <<images[n].filename>> ELSE <<>>,
   footer  |-> <<n, Len(images)>>]

\* a page that doc.addPage() added and nothing was drawn on
BlankPage == [image |-> <<>>, caption |-> <<>>, footer |-> <<>>]

PdfFrame == <<files, body, i, processedImages, uploadsDir, log, response, outputDir, pdfCalls,
              delivery, Outside>>

\* one iteration of for (const [index, image] of images.entries())
Pdf_AddPage ==
  /\ pc = "pdf_page"
  /\ Len(pages) < Len(processedImages)
  /\ Embeddable(processedImages[Len(pages) + 1].buffer.enc)
  /\ pages' = Append(pages, Page(processedImages, Len(pages) + 1, showFilenames))
  /\ UNCHANGED <<pc, pdfStream>>
  /\ UNCHANGED PdfFrame
  /\ UNCHANGED ZipLocals

\* doc.image throws inside the iteration: generatePDF rejects
Pdf_ImageThrows ==
  /\ pc = "pdf_page"
  /\ Len(pages) < Len(processedImages)
  /\ ~Embeddable(processedImages[Len(pages) + 1].buffer.enc)
  /\ pages' = Append(pages, BlankPage)
  /\ pc' = "ctl_catch"
  /\ UNCHANGED pdfStream
  /\ UNCHANGED PdfFrame
  /\ UNCHANGED ZipLocals

\* mutant: the path is resolved at doc.end(), without waiting for 'finish'
Pdf_End_ResolvesAtOnce ==
  /\ pc = "pdf_page"
  /\ Len(pages) = Len(processedImages)
  /\ pdfStream' = "ending"
  /\ pc' = "ctl_send"
  /\ UNCHANGED pages
  /\ UNCHANGED PdfFrame
  /\ UNCHANGED ZipLocals

\* doc.end(); return new Promise(...): the listeners for 'finish' and 'error'
\* are attached in the same synchronous run, before any stream event
Pdf_End ==
  /\ pc = "pdf_page"
  /\ Len(pages) = Len(processedImages)
  /\ pdfStream' = "ending"
  /\ pc' = "pdf_wait"
  /\ UNCHANGED pages
  /\ UNCHANGED PdfFrame
  /\ UNCHANGED ZipLocals

\* pdfStream.on("finish"): resolve(outputPath)
Pdf_Finish ==
  /\ pc = "pdf_wait"
  /\ pdfStream' = "finished"
  /\ pc' = "ctl_send"
  /\ UNCHANGED pages
  /\ UNCHANGED PdfFrame
  /\ UNCHANGED ZipLocals

\* mutant: the 'error' listener resolves the path of the partial file
Pdf_StreamError_Resolves ==
  /\ pc = "pdf_wait"
  /\ pdfStream' = "error"
  /\ pc' = "ctl_send"
  /\ UNCHANGED pages
  /\ UNCHANGED PdfFrame
  /\ UNCHANGED ZipLocals

\* pdfStream.on("error"): the write stream failed (open, write or close; the
\* event is delivered after the synchronous run of generatePDF): reject(error)
Pdf_StreamError ==
  /\ pc = "pdf_wait"
  /\ pdfStream' = "error"
  /\ pc' = "ctl_catch"
  /\ UNCHANGED pages
  /\ UNCHANGED PdfFrame
  /\ UNCHANGED ZipLocals

\* ------------------------------------------- converterController.convertToPdf
Json(status, message) ==
  [status |-> status, success |-> FALSE, message |-> message, body |-> "json"]

CtlFrame == <<files, body, i, processedImages, uploadsDir, log>>

\* !files || files.length === 0
Ctl_NoFiles ==
  /\ pc = "ctl_start"
  /\ Len(files) = 0
  /\ response' = Json(400, "No files were uploaded")
  /\ pc' = "done"
  /\ UNCHANGED CtlFrame
  /\ UNCHANGED ZipLocals
  /\ UNCHANGED PdfLocals

\* options read, fileService.processFiles called
Ctl_Start ==
  /\ pc = "ctl_start"
  /\ Len(files) > 0
  /\ pc' = "pf_loop"
  /\ UNCHANGED response
  /\ UNCHANGED CtlFrame
  /\ UNCHANGED ZipLocals
  /\ UNCHANGED PdfLocals

\* mutant: the empty list is not checked and goes on to generatePDF
Ctl_NoImages_Composes ==
  /\ pc = "ctl_processed"
  /\ Len(processedImages) = 0
  /\ pdfCalls' = pdfCalls + 1
  /\ outputDir' = outputDir \cup {OutputPath(pdfCalls + 1)}
  /\ pages' = <<>>
  /\ pdfStream' = "open"
  /\ pc' = "pdf_page"
  /\ UNCHANGED <<response, delivery, Outside>>
  /\ UNCHANGED CtlFrame
  /\ UNCHANGED ZipLocals

\* processedImages.length === 0
Ctl_NoImages ==
  /\ pc = "ctl_processed"
  /\ Len(processedImages) = 0
  /\ response' = Json(400, "No valid images found in the uploaded files")
  /\ pc' = "done"
  /\ UNCHANGED CtlFrame
  /\ UNCHANGED ZipLocals
  /\ UNCHANGED PdfLocals

\* pdfService.generatePDF called: output directory, write stream, document
Ctl_Compose ==
  /\ pc = "ctl_processed"
  /\ Len(processedImages) > 0
  /\ pdfCalls' = pdfCalls + 1
  /\ outputDir' = outputDir \cup {OutputPath(pdfCalls + 1)}
  /\ pages' = <<>>
  /\ pdfStream' = "open"
  /\ pc' = "pdf_page"
  /\ UNCHANGED <<response, delivery, Outside>>
  /\ UNCHANGED CtlFrame
  /\ UNCHANGED ZipLocals

\* headers set, fs.createReadStream(pdfPath).pipe(res)
Ctl_Send ==
  /\ pc = "ctl_send"
  /\ response' = [status |-> 200, success |-> TRUE, message |-> "", body |-> "pdf"]
  /\ delivery' = "reading"
  /\ pc' = "streaming"
  /\ UNCHANGED <<pages, outputDir, pdfCalls, pdfStream, Outside>>
  /\ UNCHANGED CtlFrame
  /\ UNCHANGED ZipLocals

\* pdfStream.on("end"): the whole file went into res; setTimeout(..., 1000)
Ctl_StreamEnd ==
  /\ pc = "streaming"
  /\ delivery' = "ended"
  /\ pc' = "release_wait"
  /\ UNCHANGED <<pages, outputDir, pdfCalls, pdfStream, response, Outside>>
  /\ UNCHANGED CtlFrame
  /\ UNCHANGED ZipLocals

\* the read stream emits 'error' (the file cannot be opened or read): it has
\* no 'error' listener and the try/catch has been left, so the error is an
\* uncaught exception; res keeps its headers and gets no end and no message
Ctl_StreamError ==
  /\ pc = "streaming"
  /\ delivery' = "error"
  /\ pc' = "crashed"
  /\ UNCHANGED <<pages, outputDir, pdfCalls, pdfStream, response, Outside>>
  /\ UNCHANGED CtlFrame
  /\ UNCHANGED ZipLocals

\* the timer fires: fileService.cleanupTempFiles(pdfPath)
Ctl_Release ==
  /\ pc = "release_wait"
  /\ outputDir' = Unlink(outputDir, OutputPath(pdfCalls))
  /\ pc' = "done"
  /\ UNCHANGED <<pages, pdfCalls, pdfStream, delivery, response, Outside>>
  /\ UNCHANGED CtlFrame
  /\ UNCHANGED ZipLocals

\* error.message of what the controller catches
ErrorMessage ==
  IF pdfStream = "error" THEN "write failed" ELSE "Unknown image format."

\* catch (error): res.status(500).json({success: false, message})
Ctl_Catch ==
  /\ pc = "ctl_catch"
  /\ response' = Json(500, ErrorMessage)
  /\ pc' = "done"
  /\ UNCHANGED CtlFrame
  /\ UNCHANGED ZipLocals
  /\ UNCHANGED PdfLocals

\* --------------------------------------------------------- specifications
Next ==
  \/ Ctl_NoFiles \/ Ctl_Start \/ Ctl_NoImages \/ Ctl_Compose \/ Ctl_Send \/ Ctl_Catch
  \/ Ctl_StreamEnd \/ Ctl_StreamError \/ Ctl_Release
  \/ PF_StatFails \/ PF_EmptyFile \/ PF_CallZip \/ PF_Image \/ PF_Unsupported
  \/ PF_ZipReturned \/ PF_ZipThrew \/ PF_Finally \/ PF_Return
  \/ Zip_Open \/ Zip_Load \/ Zip_Entry \/ Zip_EndLoop \/ Zip_Finally
  \/ Pdf_AddPage \/ Pdf_ImageThrows \/ Pdf_End \/ Pdf_Finish \/ Pdf_StreamError

\* one conversion request, from its arrival at the controller to its response
Spec == Init /\ [][Next]_vars

\* extractAndProcessImages called on its own with one archive file
InitZip ==
  /\ files \in {<<u>> : u \in ArchiveKindsFull}
  /\ body = [showFilenames |-> "false", imageQuality |-> Absent]
  /\ uploadsDir = {n \in 1..Len(files) : files[n].present}
  /\ pc = "zip_open"
  /\ InitLocals

NextZip == Zip_Open \/ Zip_Load \/ Zip_Entry \/ Zip_EndLoop \/ Zip_Finally

SpecZip == InitZip /\ [][NextZip]_vars


\* one request with every value of the option fields, on shorter batches
InitOptions ==
  /\ files \in SeqsUpTo({u \in UploadKinds : fileFilter(u)}, MaxFiles - 1)
  /\ body \in [showFilenames : {"true", "false"},
               imageQuality : {Absent, "low", "medium", "high", "ultra"}]
  /\ uploadsDir = {n \in 1..Len(files) : files[n].present}
  /\ pc = "ctl_start"
  /\ InitLocals

SpecOptions == InitOptions /\ [][Next]_vars

\* ------------------------------------------------- formats, names, dimensions
\* an image whose header says `format` (metadata.format), 800 x 600
ImgAs(format) ==
  [kind |-> "img", width |-> 800, height |-> 600, entries |-> <<>>, format |-> format]

\* an image whose height sharp reports as undefined
ImgNoHeight == Bytes("img", 800, 0, <<>>)

\* a readable file entry at relativePath folder/base+ext
\* (folder "" is the root of the archive)
EntryAt(folder, base, ext, data) ==
  [dir |-> FALSE, ext |-> ext, readable |-> TRUE, data |-> data,
   folder |-> folder, base |-> base]

\* loose uploads over the declared content types and the extensions
FormatLoose ==
  {Upload(".jpeg", "image/jpg", TRUE, ImgAs("jpeg")),
   Upload(".gif", "image/gif", TRUE, ImgAs("gif")),
   Upload(".bmp", "image/bmp", TRUE, ImgOK),
   Upload(".tiff", "image/tiff", TRUE, ImgOK),
   Upload(".png", "image/jpeg", TRUE, ImgAs("png")),
   Upload(".gif", "text/plain", TRUE, ImgAs("gif")),
   Upload(".png", "image/png", TRUE, ImgNoHeight)}

\* archives over the extensions, with entries of one base name in two folders
FormatArchives ==
  {Upload(".zip", "application/zip", TRUE, Archive(es)) :
     es \in {<<EntryAt("a", "photo", ".jpg", ImgOK), EntryAt("b", "photo", ".jpg", ImgOK)>>,
             <<EntryAt("a", "photo", ".webp", ImgAs("png")), EntryAt("a", "scan", ".gif", ImgOK)>>,
             <<EntryAt("", "x", ".bmp", ImgOK), EntryAt("", "y", ".tiff", ImgNoDims)>>,
             <<EntryAt("", "p", ".PNG", ImgOK), EntryAt("c", "p", ".jpeg", ImgNoHeight)>>}}

FormatKinds == UploadKinds \cup FormatLoose \cup FormatArchives

\* one request over the formats, on shorter batches
InitFormats ==
  /\ files \in SeqsUpTo({u \in FormatKinds : fileFilter(u)}, MaxFiles - 1)
  /\ body = [showFilenames |-> "true", imageQuality |-> Absent]
  /\ uploadsDir = {n \in 1..Len(files) : files[n].present}
  /\ pc = "ctl_start"
  /\ InitLocals

SpecFormats == InitFormats /\ [][Next]_vars

\* ------------------------------------------------------ concurrent requests
\* Two requests, each uploading one archive with one image, interleaved at
\* their await points on one clock. What they share is the file system under
\* tmp and the names they give their files.
OneRequest == <<files, body, pc, i, processedImages, uploadsDir, log, zipImages, j, zipError,
                extractedDir, dirsMade, pages, outputDir, pdfCalls, pdfStream, delivery,
                response>>

\* multer's filename: file.fieldname + "-" + Date.now() + "-" + random + ext
UploadPath(timestamp, random) == <<"files", timestamp, random>>

\* Math.round(Math.random() * 1e9) of the uploads stored so far
SuffixesDrawn == {reqs[q].upload[3] : q \in {x \in Requests : reqs[x].upload # None}}

\* a millisecond passes
Tick ==
  /\ now < MaxClock
  /\ now' = now + 1
  /\ UNCHANGED <<reqs, disk>>
  /\ UNCHANGED <<OneRequest, tmp, sweep, Apart>>

\* multer stores the upload of request r; two draws of the random suffix are
\* taken to differ
R_Store(r) ==
  /\ reqs[r].pc = "arrive"
  /\ \E random \in (1..Cardinality(Requests)) \ SuffixesDrawn :
       /\ reqs' = [reqs EXCEPT ![r].pc = "stored", ![r].upload = UploadPath(now, random)]
       /\ disk' = disk \cup {UploadPath(now, random)}
  /\ UNCHANGED now
  /\ UNCHANGED <<OneRequest, tmp, sweep, Apart>>

\* extractAndProcessImages: timestamp = Date.now(), extractDir = zip_<timestamp>,
\* fsExtra.ensureDir(extractDir)
R_Extract(r) ==
  /\ reqs[r].pc = "stored"
  /\ reqs' = [reqs EXCEPT ![r].pc = "extracting", ![r].extractDir = ExtractDir(now)]
  /\ disk' = disk \cup {ExtractDir(now)}
  /\ UNCHANGED now
  /\ UNCHANGED <<OneRequest, tmp, sweep, Apart>>

\* finally { fsExtra.remove(extractDir) }
R_Extracted(r) ==
  /\ reqs[r].pc = "extracting"
  /\ reqs' = [reqs EXCEPT ![r].pc = "extracted"]
  /\ disk' = Remove(disk, reqs[r].extractDir)
  /\ UNCHANGED now
  /\ UNCHANGED <<OneRequest, tmp, sweep, Apart>>

\* processFiles: finally { fs.promises.unlink(file.path) }, return
R_Unlink(r) ==
  /\ reqs[r].pc = "extracted"
  /\ reqs' = [reqs EXCEPT ![r].pc = "processed"]
  /\ disk' = Unlink(disk, reqs[r].upload)
  /\ UNCHANGED now
  /\ UNCHANGED <<OneRequest, tmp, sweep, Apart>>

\* generatePDF: timestamp = new Date().getTime(), outputPath =
\* converted_<timestamp>.pdf, fs.createWriteStream(outputPath), pages, doc.end()
R_Compose(r) ==
  /\ reqs[r].pc = "processed"
  /\ reqs' = [reqs EXCEPT ![r].pc = "writing", ![r].outputPath = OutputPath(now)]
  /\ disk' = disk \cup {OutputPath(now)}
  /\ UNCHANGED now
  /\ UNCHANGED <<OneRequest, tmp, sweep, Apart>>

\* 'finish': the path is resolved; headers, fs.createReadStream(pdfPath).pipe(res)
R_Send(r) ==
  /\ reqs[r].pc = "writing"
  /\ reqs' = [reqs EXCEPT ![r].pc = "opening"]
  /\ UNCHANGED <<now, disk>>
  /\ UNCHANGED <<OneRequest, tmp, sweep, Apart>>

\* the read stream opens the file: it reads, or emits 'error' when the path
\* is gone (uncaught, see Ctl_StreamError)
R_Open(r) ==
  /\ reqs[r].pc = "opening"
  /\ reqs' = [reqs EXCEPT ![r].pc = IF reqs[r].outputPath \in disk THEN "reading" ELSE "crashed"]
  /\ UNCHANGED <<now, disk>>
  /\ UNCHANGED <<OneRequest, tmp, sweep, Apart>>

\* pdfStream.on("end"): setTimeout(..., 1000)
R_End(r) ==
  /\ reqs[r].pc = "reading"
  /\ reqs' = [reqs EXCEPT ![r].pc = "release_wait"]
  /\ UNCHANGED <<now, disk>>
  /\ UNCHANGED <<OneRequest, tmp, sweep, Apart>>

\* the timer fires: cleanupTempFiles(pdfPath): existsSync, unlink
R_Release(r) ==
  /\ reqs[r].pc = "release_wait"
  /\ reqs' = [reqs EXCEPT ![r].pc = "done"]
  /\ disk' = Unlink(disk, reqs[r].outputPath)
  /\ UNCHANGED now
  /\ UNCHANGED <<OneRequest, tmp, sweep, Apart>>

InitTwo ==
  /\ files = <<>>
  /\ body = [showFilenames |-> "false", imageQuality |-> Absent]
  /\ uploadsDir = {}
  /\ pc = "ctl_start"
  /\ InitLocals

NextTwo ==
  \/ Tick
  \/ \E r \in Requests :
       \/ R_Store(r) \/ R_Extract(r) \/ R_Extracted(r) \/ R_Unlink(r) \/ R_Compose(r)
       \/ R_Send(r) \/ R_Open(r) \/ R_End(r) \/ R_Release(r)

SpecTwo == InitTwo /\ [][NextTwo]_vars

\* ---------------------------------------------------- storage.cleanupOldFiles
\* The entries under tmp as the sweep sees them.  An entry is an upload temp
\* file, a scratch directory or an output document; its owner is the request
\* that made it ("inflight"), the release timer of a delivered document
\* ("delivered"), or nobody: the request failed or the process died ("left").
\* age is Date.now() - mtimeMs, in steps of TickMs and capped at AgeCap.
TickMs == OneHourMs \div 2
AgeCap == OneHourMs + TickMs

NotStorage == <<OneRequest, now, reqs, disk, Apart>>

\* half an hour passes; no run of the sweep lasts that long, and the timer
\* fires when its interval is over
Tick30 ==
  /\ ~sweep.running
  /\ sweep.since < SweepIntervalMs
  /\ sweep' = [sweep EXCEPT !.since = @ + TickMs]
  /\ tmp' = [p \in Paths |->
               IF tmp[p] = NoEntry \/ tmp[p].age = AgeCap THEN tmp[p]
               ELSE [tmp[p] EXCEPT !.age = @ + TickMs]]
  /\ UNCHANGED NotStorage

\* a request creates an entry: multer stores an upload, ensureDir makes a
\* scratch directory, createWriteStream opens an output document.  Its name
\* carries the current time, so it is none of the names a run of the sweep
\* holds from its listing.
E_Create(p, kind) ==
  /\ tmp[p] = NoEntry
  /\ p \notin sweep.todo \cup sweep.doomed
  /\ tmp' = [tmp EXCEPT ![p] = [kind |-> kind, owner |-> "inflight", age |-> 0]]
  /\ UNCHANGED sweep
  /\ UNCHANGED NotStorage

\* bytes are written to a file of a request in flight (the upload still
\* arriving, the document still being flushed): mtime becomes now
E_Write(p) ==
  /\ tmp[p].owner = "inflight"
  /\ tmp[p].kind \in {"upload", "output"}
  /\ tmp[p].age # 0
  /\ tmp' = [tmp EXCEPT ![p].age = 0]
  /\ UNCHANGED sweep
  /\ UNCHANGED NotStorage

\* the request deletes its own upload (processFiles' finally) or its scratch
\* directory (extractAndProcessImages' finally)
E_Done(p) ==
  /\ tmp[p].owner = "inflight"
  /\ tmp[p].kind \in {"upload", "scratch"}
  /\ tmp' = [tmp EXCEPT ![p] = NoEntry]
  /\ UNCHANGED sweep
  /\ UNCHANGED NotStorage

\* the read stream of the document ended: setTimeout(cleanupTempFiles, 1000)
E_Delivered(p) ==
  /\ tmp[p].owner = "inflight"
  /\ tmp[p].kind = "output"
  /\ tmp' = [tmp EXCEPT ![p].owner = "delivered"]
  /\ UNCHANGED sweep
  /\ UNCHANGED NotStorage

\* the release timer fires: cleanupTempFiles(pdfPath)
E_Release(p) ==
  /\ tmp[p].owner = "delivered"
  /\ tmp' = [tmp EXCEPT ![p] = NoEntry]
  /\ UNCHANGED sweep
  /\ UNCHANGED NotStorage

\* the request ends without deleting the entry: generatePDF rejected, the
\* delivery stream failed, or the process died
E_Left(p) ==
  /\ tmp[p].owner = "inflight"
  /\ tmp' = [tmp EXCEPT ![p].owner = "left"]
  /\ UNCHANGED sweep
  /\ UNCHANGED NotStorage

\* the timer fires: cleanupOldFiles() takes now and oneHourAgo and asks for
\* the listing of the three directories
Sweep_Start ==
  /\ ~sweep.running
  /\ sweep.since = SweepIntervalMs
  /\ sweep' = [Idle(0) EXCEPT !.running = TRUE]
  /\ UNCHANGED tmp
  /\ UNCHANGED NotStorage

\* fs.readdir calls back: a stat is asked for every entry there is
Sweep_List ==
  /\ sweep.running
  /\ ~sweep.listed
  /\ sweep' = [sweep EXCEPT !.listed = TRUE, !.todo = {p \in Paths : tmp[p] # NoEntry}]
  /\ UNCHANGED tmp
  /\ UNCHANGED NotStorage

\* stats.isFile() / stats.isDirectory()
IsFile(entry) == entry.kind \in {"upload", "output"}
IsDirectory(entry) == entry.kind = "scratch"

\* stats.mtimeMs < oneHourAgo, for a run that started at `start`, read at `at`
OlderThanOneHour(entry, start, at) ==
  LET mtimeMs    == at - entry.age
      oneHourAgo == start - OneHourMs
  IN  mtimeMs < oneHourAgo

\* mutant: only files are deleted, directories are left
Sweep_Stat_FilesOnly(p) ==
  /\ p \in sweep.todo
  /\ LET at == sweep.since + AgeCap
         deletes == /\ tmp[p] # NoEntry
                    /\ IsFile(tmp[p]) /\ OlderThanOneHour(tmp[p], at, at)
     IN  sweep' = [sweep EXCEPT !.todo = @ \ {p},
                                !.doomed = IF deletes THEN @ \cup {p} ELSE @]
  /\ UNCHANGED tmp
  /\ UNCHANGED NotStorage

\* fs.stat calls back for one entry: an error (the entry is gone) is logged;
\* an old file gets fs.unlink, an old directory fs.rm recursive.  No clock
\* step separates the start of the run from this read, so at = start (times
\* are counted from AgeCap before the timer fired).
Sweep_Stat(p) ==
  /\ p \in sweep.todo
  /\ LET at == sweep.since + AgeCap
         deletes == /\ tmp[p] # NoEntry
                    /\ \/ IsFile(tmp[p]) /\ OlderThanOneHour(tmp[p], at, at)
                       \/ IsDirectory(tmp[p]) /\ OlderThanOneHour(tmp[p], at, at)
     IN  sweep' = [sweep EXCEPT !.todo = @ \ {p},
                                !.doomed = IF deletes THEN @ \cup {p} ELSE @]
  /\ UNCHANGED tmp
  /\ UNCHANGED NotStorage

\* the unlink or rm asked for by the stat callback is carried out
Sweep_Unlink(p) ==
  /\ p \in sweep.doomed
  /\ tmp' = [tmp EXCEPT ![p] = NoEntry]
  /\ sweep' = [sweep EXCEPT !.doomed = @ \ {p}]
  /\ UNCHANGED NotStorage

\* every callback of the run has been served
Sweep_End ==
  /\ sweep.running
  /\ sweep.listed
  /\ sweep.todo = {}
  /\ sweep.doomed = {}
  /\ sweep' = Idle(0)
  /\ UNCHANGED tmp
  /\ UNCHANGED NotStorage

InitSweep ==
  /\ files = <<>>
  /\ body = [showFilenames |-> "false", imageQuality |-> Absent]
  /\ uploadsDir = {}
  /\ pc = "ctl_start"
  /\ InitLocals

\* what the timers and the file system do on their own
SweepStep ==
  \/ Sweep_Start \/ Sweep_List \/ Sweep_End
  \/ \E p \in Paths : Sweep_Stat(p) \/ Sweep_Unlink(p)

ReleaseStep == \E p \in Paths : E_Release(p)

NextSweep ==
  \/ Tick30
  \/ SweepStep
  \/ ReleaseStep
  \/ \E p \in Paths :
       \/ \E kind \in {"upload", "scratch", "output"} : E_Create(p, kind)
       \/ E_Write(p) \/ E_Done(p) \/ E_Delivered(p) \/ E_Left(p)

SpecSweep == InitSweep /\ [][NextSweep]_vars

\* time passes, the sweep timer and the release timer fire, and the file
\* system answers every call
SpecSweepFair ==
  SpecSweep /\ WF_vars(Tick30) /\ WF_vars(SweepStep) /\ WF_vars(ReleaseStep)

\* -------------------------------- storage.cleanupFile, cleanupTempFiles
\* Calls of the two release functions on paths under tmp, against requests
\* creating files and the sweep deleting them at any moment.
NotRelease == <<OneRequest, now, reqs, disk, tmp, sweep, layout>>

\* a request creates the file at p
Rel_Create(p) ==
  /\ p \notin rel.disk
  /\ rel' = [rel EXCEPT !.disk = @ \cup {p}]
  /\ UNCHANGED NotRelease

\* the sweep (or another release) deletes the file at p
Rel_Deleted(p) ==
  /\ p \in rel.disk
  /\ rel' = [rel EXCEPT !.disk = @ \ {p}]
  /\ UNCHANGED NotRelease

\* fn(p) is called: try { if (fs.existsSync(filePath)) ...: a path that is
\* gone makes the call return at once
Rel_Call(c, fn, p) ==
  /\ rel.calls[c].pc = "idle"
  /\ rel' = [rel EXCEPT !.calls[c] =
               [fn |-> fn, path |-> p, pc |-> IF p \in rel.disk THEN "unlink" ELSE "returned",
                threw |-> FALSE, logged |-> FALSE]]
  /\ UNCHANGED NotRelease

\* mutant: the unlink is outside the try
Rel_Unlink_NoCatch(c) ==
  /\ rel.calls[c].pc = "unlink"
  /\ LET p == rel.calls[c].path
     IN  rel' = [rel EXCEPT !.disk = @ \ {p},
                            !.calls[c].pc = "returned",
                            !.calls[c].threw = p \notin rel.disk]
  /\ UNCHANGED NotRelease

\* fs.unlinkSync(filePath) / await fs.promises.unlink(filePath): ENOENT when
\* the path went in between, caught by catch (error) and logged
Rel_Unlink(c) ==
  /\ rel.calls[c].pc = "unlink"
  /\ LET p == rel.calls[c].path
     IN  rel' = [rel EXCEPT !.disk = @ \ {p},
                            !.calls[c].pc = "returned",
                            !.calls[c].logged = p \notin rel.disk]
  /\ UNCHANGED NotRelease

InitRelease ==
  /\ files = <<>>
  /\ body = [showFilenames |-> "false", imageQuality |-> Absent]
  /\ uploadsDir = {}
  /\ pc = "ctl_start"
  /\ InitLocals

NextRelease ==
  \/ \E p \in Paths : Rel_Create(p) \/ Rel_Deleted(p)
  \/ \E c \in Calls :
       \/ \E fn \in {"cleanupFile", "cleanupTempFiles"}, p \in Paths : Rel_Call(c, fn, p)
       \/ Rel_Unlink(c)

SpecRelease == InitRelease /\ [][NextRelease]_vars

\* ------------------------------------------ generatePDF: placing one image
\* Lengths are exact fractions n/d of a PDF point, d > 0, in lowest terms
\* (the code computes them in double precision; rounding is not modelled).
RECURSIVE GCD(_, _)
GCD(a, b) == IF b = 0 THEN a ELSE GCD(b, a % b)

Abs(k) == IF k < 0 THEN -k ELSE k

Q(n, d) ==
  LET g == GCD(Abs(n), d)
  IN  [n |-> n \div g, d |-> d \div g]

QInt(k) == [n |-> k, d |-> 1]

QAdd(a, b) ==
  LET l == (a.d \div GCD(a.d, b.d)) * b.d
  IN  Q(a.n * (l \div a.d) + b.n * (l \div b.d), l)

QSub(a, b) == QAdd(a, [n |-> -b.n, d |-> b.d])

\* a * b, cancelling across before multiplying
QMul(a, b) ==
  LET g1 == GCD(Abs(a.n), b.d)
      g2 == GCD(Abs(b.n), a.d)
  IN  [n |-> (a.n \div g1) * (b.n \div g2), d |-> (a.d \div g2) * (b.d \div g1)]

\* a / b for b > 0
QDiv(a, b) == QMul(a, [n |-> b.d, d |-> b.n])

QLess(a, b) == QSub(a, b).n < 0
QLeq(a, b) == QSub(a, b).n <= 0

\* Math.min
QMin(a, b) == IF QLess(b, a) THEN b ELSE a

\* doc.page.width and doc.page.height for options.pageSize
PageOf(pageSize) ==
  CASE pageSize = "a4"     -> [width |-> Q(59528, 100), height |-> Q(84189, 100)]
    [] pageSize = "letter" -> [width |-> QInt(612), height |-> QInt(792)]
    [] pageSize = "legal"  -> [width |-> QInt(612), height |-> QInt(1008)]
    [] pageSize = "a8"     -> [width |-> Q(14740, 100), height |-> Q(20976, 100)]

PageSizes == {"a4", "letter", "legal", "a8"}

\* image.width / image.height of the images placed: around the limits of
\* each page size, very small and very large
Sides == {1, 47, 48, 59, 60, 400, 495, 496, 512, 513, 642, 643, 691, 692, 858, 859, 3000}

\* mutant: the height of the area follows the margins and the caption
ContentArea_ByCaption(page, captions) ==
  [width  |-> QSub(page.width, QInt(100)),
   height |-> QSub(page.height, QInt(IF captions THEN 130 ELSE 100))]

\* mutant: only the margins are taken off the height
ContentArea_MarginsOnly(page, captions) ==
  [width  |-> QSub(page.width, QInt(100)),
   height |-> QSub(page.height, QInt(100))]

\* maxWidth = doc.page.width - 100, maxHeight = doc.page.height - 150
ContentArea(page, captions) ==
  [width  |-> QSub(page.width, QInt(100)),
   height |-> QSub(page.height, QInt(150))]

\* mutant: the ratio is applied to every image
ScaleToFit_Always(img, area) ==
  LET widthRatio  == QDiv(area.width, QInt(img.width))
      heightRatio == QDiv(area.height, QInt(img.height))
      ratio       == QMin(widthRatio, heightRatio)
  IN  [width  |-> QMul(QInt(img.width), ratio),
       height |-> QMul(QInt(img.height), ratio)]

\* mutant: the ratio of the widths is used alone
ScaleToFit_WidthOnly(img, area) ==
  IF QLess(area.width, QInt(img.width)) \/ QLess(area.height, QInt(img.height))
  THEN LET ratio == QDiv(area.width, QInt(img.width))
       IN  [width  |-> QMul(QInt(img.width), ratio),
            height |-> QMul(QInt(img.height), ratio)]
  ELSE [width |-> QInt(img.width), height |-> QInt(img.height)]

\* if (imgWidth > maxWidth || imgHeight > maxHeight) { ratio = Math.min(...);
\* imgWidth = imgWidth * ratio; imgHeight = imgHeight * ratio }
ScaleToFit(img, area) ==
  IF QLess(area.width, QInt(img.width)) \/ QLess(area.height, QInt(img.height))
  THEN LET widthRatio  == QDiv(area.width, QInt(img.width))
           heightRatio == QDiv(area.height, QInt(img.height))
           ratio       == QMin(widthRatio, heightRatio)
       IN  [width  |-> QMul(QInt(img.width), ratio),
            height |-> QMul(QInt(img.height), ratio)]
  ELSE [width |-> QInt(img.width), height |-> QInt(img.height)]

\* mutant: the caption is not taken into account
Position_NoCaption(page, size, captions) ==
  [x |-> QDiv(QSub(page.width, size.width), QInt(2)),
   y |-> QDiv(QSub(page.height, size.height), QInt(2))]

\* x = (doc.page.width - imgWidth) / 2,
\* y = (doc.page.height - imgHeight - (options.showFilenames ? 30 : 0)) / 2
Position(page, size, captions) ==
  [x |-> QDiv(QSub(page.width, size.width), QInt(2)),
   y |-> QDiv(QSub(QSub(page.height, size.height), QInt(IF captions THEN 30 ELSE 0)),
              QInt(2))]

NotLayout == <<OneRequest, now, reqs, disk, tmp, sweep, rel>>

\* doc.addPage() for an image of the list
Layout_AddPage(pageSize, width, height, captions) ==
  /\ layout.phase = "none"
  /\ layout' = [phase |-> "page", page |-> PageOf(pageSize),
                img |-> [width |-> width, height |-> height], captions |-> captions]
  /\ UNCHANGED NotLayout

\* the rest of the iteration: the area, the size, the position, doc.image,
\* the caption at y + imgHeight + 10 and the footer at doc.page.height - 30
Layout_Place ==
  /\ layout.phase = "page"
  /\ LET area == ContentArea(layout.page, layout.captions)
         size == ScaleToFit(layout.img, area)
         at   == Position(layout.page, size, layout.captions)
     IN  layout' = [phase |-> "placed", page |-> layout.page, img |-> layout.img,
                    captions |-> layout.captions, area |-> area, size |-> size, at |-> at,
                    captionY |-> QAdd(QAdd(at.y, size.height), QInt(10)),
                    footerY  |-> QSub(layout.page.height, QInt(30))]
  /\ UNCHANGED NotLayout

InitLayout ==
  /\ files = <<>>
  /\ body = [showFilenames |-> "false", imageQuality |-> Absent]
  /\ uploadsDir = {}
  /\ pc = "ctl_start"
  /\ InitLocals

NextLayout ==
  \/ \E pageSize \in PageSizes, width \in Sides, height \in Sides, captions \in BOOLEAN :
       Layout_AddPage(pageSize, width, height, captions)
  \/ Layout_Place

SpecLayout == InitLayout /\ [][NextLayout]_vars

\* ------------------------------------------------------------------ claims
\* the request is inside the iteration of upload i
InUpload ==
  pc \in {"pf_finally", "zip_open", "zip_load", "zip_entry", "zip_finally",
          "zip_returned", "zip_threw"}

\* processFiles has returned its list
AfterProcessFiles ==
  \/ pc \in {"ctl_processed", "pdf_page", "pdf_wait", "ctl_send", "ctl_catch",
            "streaming", "release_wait", "crashed"}
  \/ pc = "done" /\ Len(files) > 0

\* res has been given a response
Responded == response # NoResponse

\* the source of a processed image: <<upload>> or <<upload, entry>>
Src(img) == img.buffer.of

\* the sources of a list of processed images
Sources(images) == [k \in 1..Len(images) |-> Src(images[k])]

\* C1: processFiles unlinks the temp file of every upload exactly once, after
\* that upload's processing and before the next upload's processing starts:
\* the history is process 1, unlink 1, process 2, unlink 2, ..., it is complete
\* when processFiles returns, and no unlinked file is still there.
C1_ReleasedExactlyOnce ==
  /\ \A k \in 1..Len(log) :
       log[k] = IF k % 2 = 1 THEN <<"process", (k + 1) \div 2>>
                ELSE <<"unlink", k \div 2>>
  /\ InUpload => Len(log) = 2 * i - 1
  /\ pc = "pf_loop" => Len(log) = 2 * (i - 1)
  /\ AfterProcessFiles => Len(log) = 2 * Len(files)
  /\ \A n \in uploadsDir : n > Len(log) \div 2

\* C1 witness: a batch of an archive, a lost file and an empty file, all released
C1_Witness ==
  /\ pc = "ctl_processed"
  /\ Len(log) = 6
  /\ \E a, b, c \in 1..Len(files) :
       /\ files[a].data.kind = "zip"
       /\ ~files[b].present
       /\ Size0(files[c].data)

\* C2: once the request has its response no temp file of its uploads and no
\* scratch directory of its extractions exists, and extractAndProcessImages
\* has removed its scratch directory whenever it has returned or thrown.
C2_NoTempLeft ==
  /\ Responded => uploadsDir = {} /\ extractedDir = {}
  /\ pc \in {"zip_returned", "zip_threw"} => extractedDir = {}

\* C2 witness: a response after a corrupt archive and an extracted archive
C2_Witness ==
  /\ Responded
  /\ Cardinality(dirsMade) >= 2
  /\ \E n \in 1..Len(files) : files[n].data.kind = "garbage" /\ ExtractDir(n) \in dirsMade
  /\ \E n \in 1..Len(files) : files[n].data.kind = "zip" /\ ExtractDir(n) \in dirsMade

\* two loose images followed by an archive of two images
TwoLooseThenZip ==
  files = <<Upload(".jpg", "image/jpeg", TRUE, ImgOK),
            Upload(".jpg", "image/jpeg", TRUE, ImgOK),
            Upload(".zip", "application/zip", TRUE, Archive(<<ImgEntry, ImgEntry>>))>>

\* C3: processedImages is in upload order: an image of an earlier upload
\* precedes every image of a later one, entries of one archive keep their
\* order; two loose images then an archive of two give [1, 2, 3/1, 3/2].
C3_UploadOrder ==
  /\ \A a, b \in 1..Len(processedImages) :
       a < b =>
         LET x == Src(processedImages[a])
             y == Src(processedImages[b])
         IN  \/ x[1] < y[1]
             \/ x[1] = y[1] /\ Len(x) = 2 /\ Len(y) = 2 /\ x[2] < y[2]
  /\ (TwoLooseThenZip /\ AfterProcessFiles) =>
       Sources(processedImages) = << <<1>>, <<2>>, <<3, 1>>, <<3, 2>> >>

\* C3 witness: that batch, processed
C3_Witness ==
  /\ pc = "ctl_processed"
  /\ TwoLooseThenZip
  /\ Len(processedImages) = 4


\* the image extensions of an archive entry, lower case
ClaimImageExts == {".jpg", ".jpeg", ".png", ".gif", ".bmp", ".tiff", ".webp"}

\* an entry that is a file with an image extension, whatever its case
ImageEntry(e) == ~e.dir /\ ToLowerCase(e.ext) \in ClaimImageExts

\* an entry whose bytes can be read and decode to an image with dimensions
Decodes(e) ==
  e.readable /\ e.data.kind = "img" /\ e.data.width > 0 /\ e.data.height > 0

\* the indexes q <= n of the entries that are image entries and decode, ascending
RECURSIVE Qualifying(_, _)
Qualifying(es, n) ==
  IF n = 0 THEN <<>>
  ELSE IF ImageEntry(es[n]) /\ Decodes(es[n])
    THEN Append(Qualifying(es, n - 1), n)
    ELSE Qualifying(es, n - 1)

\* C4: what extractAndProcessImages has collected after j-1 entries, and what
\* it returns, is exactly the entries that are not directories, have an image
\* extension (case-insensitive) and decode, in enumeration order.
C4_ExactSubsequence ==
  (pc \in {"zip_entry", "zip_finally", "zip_returned"} /\ zipError = NoError) =>
     LET q == Qualifying(files[i].data.entries, j - 1)
     IN  /\ Sources(zipImages) = [k \in 1..Len(q) |-> <<i, q[k]>>]
         /\ pc = "zip_returned" => j = Len(files[i].data.entries) + 1

\* C4 witness: a non-image entry, then an upper-case .PNG image: one image, entry 2
C4_Witness ==
  /\ pc = "zip_returned"
  /\ Len(files[i].data.entries) = 2
  /\ ~files[i].data.entries[1].dir
  /\ files[i].data.entries[1].ext = ".txt"
  /\ files[i].data.entries[1].data.kind = "img"
  /\ files[i].data.entries[2].ext = ".PNG"
  /\ Sources(zipImages) = << <<i, 2>> >>

\* C5: generatePDF makes one page per image in input order: page k shows
\* images[k] and carries the footer "Page k of T", T the number of images,
\* with and without captions; the finished document has exactly T pages.
C5_OnePagePerImage ==
  /\ (pc \in {"pdf_page", "ctl_send"} \/ response.body = "pdf") =>
       /\ Len(pages) <= Len(processedImages)
       /\ \A k \in 1..Len(pages) :
            /\ pages[k].image = <<processedImages[k].buffer>>
            /\ pages[k].footer = <<k, Len(processedImages)>>
  /\ (pc = "ctl_send" \/ response.body = "pdf") => Len(pages) = Len(processedImages)

\* C5 witness: a delivered document of four pages without captions
C5_Witness ==
  /\ response.body = "pdf"
  /\ Len(pages) = 4
  /\ ~showFilenames
  /\ \A k \in 1..4 : pages[k].caption = <<>>

\* an upload processFiles takes as a loose image: image extension, image type
LooseImage(u) ==
  /\ ToLowerCase(u.ext) \in {".jpg", ".jpeg", ".png", ".gif", ".bmp", ".tiff"}
  /\ u.mimetype \in {"image/jpeg", "image/png", "image/webp"}
  /\ u.present

ValidLoose(u) ==
  LooseImage(u) /\ u.data.kind = "img" /\ u.data.width > 0 /\ u.data.height > 0

\* an image file whose bytes do not decode
CorruptLoose(u) == LooseImage(u) /\ u.data.kind \in {"garbage", "truncated"}

\* C6: a batch of K valid loose images and one corrupt one, in any position,
\* gives exactly K processed images, one for each valid upload.
C6_CorruptImageIsolated ==
  ( /\ AfterProcessFiles
    /\ \A n \in 1..Len(files) : ValidLoose(files[n]) \/ CorruptLoose(files[n])
    /\ Cardinality({n \in 1..Len(files) : CorruptLoose(files[n])}) = 1 )
  => /\ Len(processedImages) = Len(files) - 1
     /\ \A n \in 1..Len(files) :
          ValidLoose(files[n]) => \E k \in 1..Len(processedImages) :
                                     Src(processedImages[k]) = <<n>>

\* C6 witness: valid, corrupt, valid: images of uploads 1 and 3
C6_Witness ==
  /\ pc = "ctl_processed"
  /\ Len(files) = 3
  /\ ValidLoose(files[1]) /\ CorruptLoose(files[2]) /\ ValidLoose(files[3])
  /\ Sources(processedImages) = << <<1>>, <<3>> >>

\* a .zip upload whose bytes are no ZIP container
CorruptArchive(u) ==
  /\ ToLowerCase(u.ext) = ".zip"
  /\ u.present
  /\ ~Size0(u.data)
  /\ LoadAsyncThrows(u.data)

\* processFiles is being run
InProcessFiles == pc = "ctl_start" \/ pc = "pf_loop" \/ InUpload

\* C7: a corrupt archive makes extractAndProcessImages throw one error that
\* names the archive file and collect nothing; in processFiles that upload
\* gives no image and every valid sibling, before or after it, gives its images.
C7_CorruptArchiveIsolated ==
  /\ (pc = "zip_threw" /\ CorruptArchive(files[i])) =>
        /\ zipError = ZipFailure("Invalid or corrupted ZIP file", i)
        /\ zipImages = <<>>
  /\ ~InProcessFiles =>
       \A n \in 1..Len(files) :
         CorruptArchive(files[n]) =>
           /\ \A k \in 1..Len(processedImages) : Src(processedImages[k])[1] # n
           /\ \A m \in 1..Len(files) :
                /\ ValidLoose(files[m]) =>
                     \E k \in 1..Len(processedImages) : Src(processedImages[k]) = <<m>>
                /\ (ToLowerCase(files[m].ext) = ".zip" /\ files[m].data.kind = "zip") =>
                     \A q \in 1..Len(files[m].data.entries) :
                       (ImageEntry(files[m].data.entries[q]) /\ Decodes(files[m].data.entries[q]))
                       => \E k \in 1..Len(processedImages) :
                            Src(processedImages[k]) = <<m, q>>

\* C7 witness: valid image, corrupt archive, valid image: images of uploads 1 and 3
C7_Witness ==
  /\ pc = "ctl_processed"
  /\ Len(files) = 3
  /\ ValidLoose(files[1]) /\ CorruptArchive(files[2]) /\ ValidLoose(files[3])
  /\ Sources(processedImages) = << <<1>>, <<3>> >>

\* the loop of processFiles is running
InLoop == pc = "pf_loop" \/ InUpload

\* more steps than one iteration of processFiles ever takes
StepsPerUpload == MaxEntries + 10

\* steps left in the iteration of the current upload, at most StepsPerUpload - 1
StepsLeft ==
  CASE pc = "pf_loop"      -> StepsPerUpload - 1
    [] pc = "zip_open"     -> StepsPerUpload - 2
    [] pc = "zip_load"     -> StepsPerUpload - 3
    [] pc = "zip_entry"    -> 4 + (Len(files[i].data.entries) + 1 - j)
    [] pc = "zip_finally"  -> 3
    [] pc = "zip_returned" -> 2
    [] pc = "zip_threw"    -> 2
    [] pc = "pf_finally"   -> 1
    [] OTHER               -> 0

\* a bound on the steps processFiles still has to take
Measure == (Len(files) + 1 - i) * StepsPerUpload + StepsLeft

\* C8: processFiles never throws and always returns a list: while its loop runs
\* a step is always possible, every step either stays in the loop with a
\* smaller non-negative measure or is the return of the list to the
\* controller; no step leaves the loop for the controller's catch.
C8_AlwaysReturns ==
  /\ [](InLoop => (Measure >= 0 /\ ENABLED Next))
  /\ [][InLoop => \/ InLoop' /\ Measure' < Measure
                  \/ pc' = "ctl_processed" /\ processedImages' = processedImages]_vars

\* C8 witness: a lost file, a corrupt archive and a corrupt image: an empty list
C8_Witness ==
  /\ pc = "ctl_processed"
  /\ processedImages = <<>>
  /\ \E a, b, c \in 1..Len(files) :
       /\ ~files[a].present
       /\ CorruptArchive(files[b])
       /\ CorruptLoose(files[c])

\* C9: a request without uploads, or whose batch gives no image, ends with a
\* failure result with a message; generatePDF is not called and no document
\* file is created. generatePDF is only ever called with a non-empty list.
C9_EmptyBatchFails ==
  /\ (pc = "done" /\ (Len(files) = 0 \/ Len(processedImages) = 0)) =>
       /\ response.body = "json"
       /\ response.status = 400
       /\ ~response.success
       /\ response.message # ""
       /\ pdfCalls = 0
       /\ outputDir = {}
       /\ pages = <<>>
  /\ (pdfCalls > 0 \/ outputDir # {}) => Len(processedImages) > 0

\* C9 witness: one archive holding only a non-image entry, answered with a failure
C9_Witness ==
  /\ pc = "done"
  /\ files = <<Upload(".zip", "application/zip", TRUE, Archive(<<TxtEntry>>))>>
  /\ response.status = 400

\* a well-formed archive file none of whose entries is an image entry
WellFormedNoImages(u) ==
  /\ u.present
  /\ u.data.kind = "zip"
  /\ \A q \in 1..Len(u.data.entries) : ~ImageEntry(u.data.entries[q])

\* extractAndProcessImages has returned or thrown
ZipFinished == pc \in {"zip_returned", "zip_threw"}

\* C10 as claimed: every well-formed archive without image entries, also one
\* with no entries at all, makes extractAndProcessImages return an empty list.
C10_Original ==
  (ZipFinished /\ WellFormedNoImages(files[i])) =>
     pc = "zip_returned" /\ zipImages = <<>>

\* C10 amended: a well-formed archive with at least one entry and no image
\* entry makes extractAndProcessImages return an empty list without throwing;
\* a well-formed archive with no entries at all makes it throw "ZIP file is empty".
C10_Amended ==
  (ZipFinished /\ WellFormedNoImages(files[i])) =>
     IF Len(files[i].data.entries) = 0
       THEN pc = "zip_threw" /\ zipError = ZipFailure("ZIP file is empty", i)
       ELSE pc = "zip_returned" /\ zipImages = <<>>

\* C10 witness: an archive of a directory and a text file returns the empty list
C10_Witness ==
  /\ pc = "zip_returned"
  /\ Len(files[i].data.entries) = 2
  /\ files[i].data.entries[1].dir
  /\ files[i].data.entries[2].ext = ".txt"
  /\ zipImages = <<>>

\* the images processFiles returned for upload n
ImagesOf(n) == {k \in 1..Len(processedImages) : Src(processedImages[k]) = <<n>>}

\* upload n is a loose file whose bytes decode, with an extension of exts
DecodableLoose(n, exts) ==
  /\ ToLowerCase(files[n].ext) \in exts
  /\ files[n].present
  /\ ~Size0(files[n].data)
  /\ processImage(files[n], <<n>>) # <<>>

\* C11: the extension has precedence over the declared content type: an upload
\* with an image extension is processed as an image whatever its content type
\* (never given to extraction, and its image is in the returned list), and an
\* upload with the extension .zip is given to extraction whatever its content
\* type.
C11_ExtensionWins ==
  /\ \A n \in 1..Len(files) :
       ToLowerCase(files[n].ext) \in LooseImageExtensions => ExtractDir(n) \notin dirsMade
  /\ AfterProcessFiles =>
       \A n \in 1..Len(files) : DecodableLoose(n, LooseImageExtensions) => ImagesOf(n) # {}
  /\ \A n \in 1..Len(files) :
       (ToLowerCase(files[n].ext) = ".zip" /\ files[n].present /\ ~Size0(files[n].data)
        /\ (n < i \/ AfterProcessFiles))
         => ExtractDir(n) \in dirsMade

\* the loose image extensions the claim C12 lists
ClaimedLooseExtensions == {".jpg", ".jpeg", ".png", ".gif", ".bmp", ".tiff", ".webp"}

\* C12: the accepted loose image extensions are exactly .jpg .jpeg .png .gif
\* .bmp .tiff .webp: once processFiles has returned, an upload named *.webp was
\* let in by the boundary on its extension, is in the list of extensions
\* processFiles sends to processImage, and its image is in the returned list.
C12_WebpIsImage ==
  \A n \in 1..Len(files) :
    (AfterProcessFiles /\ ToLowerCase(files[n].ext) = ".webp") =>
      /\ filterImageExtensions = ClaimedLooseExtensions
      /\ LooseImageExtensions = ClaimedLooseExtensions
      /\ DecodableLoose(n, ClaimedLooseExtensions) => ImagesOf(n) # {}

\* the quality the claim C13 gives for the four listed values of imageQuality
ClaimedQuality(imageQuality) ==
  CASE imageQuality = "low"    -> {50}
    [] imageQuality = "medium" -> {80}
    [] imageQuality = "high"   -> {100}
    [] imageQuality = Absent   -> {80}
    [] OTHER                   -> {50, 80, 100}

\* C13: the quality every image is re-encoded at, loose or from an archive, is
\* a function of imageQuality only: low 50, medium 80, high 100, absent 80,
\* and always one of 50, 80, 100.
C13_QualityFromImageQuality ==
  /\ \A k \in 1..Len(processedImages) :
       processedImages[k].buffer.quality \in ClaimedQuality(body.imageQuality)
  /\ \A k \in 1..Len(zipImages) :
       zipImages[k].buffer.quality \in ClaimedQuality(body.imageQuality)

\* C13 witness: a loose image and an archive image, both encoded at 50 for "low"
C13_Witness ==
  /\ body.imageQuality = "low"
  /\ pc = "ctl_processed"
  /\ \E a, b \in 1..Len(processedImages) :
       /\ Len(Src(processedImages[a])) = 1
       /\ Len(Src(processedImages[b])) = 2
       /\ processedImages[a].buffer.quality = 50
       /\ processedImages[b].buffer.quality = 50

\* C14: the output path reaches the controller, and the controller opens the
\* file, only after every page was written, the document ended and the write
\* stream emitted 'finish'.
C14_PathAfterFinish ==
  (pc = "ctl_send" \/ delivery # "none") =>
    /\ pdfStream = "finished"
    /\ Len(pages) = Len(processedImages)
    /\ \A n \in 1..Len(pages) : pages[n] # BlankPage

\* C14 witness: the file of a two-page document is being read
C14_Witness ==
  /\ delivery = "reading"
  /\ Len(pages) >= 2
  /\ OutputPath(pdfCalls) \in outputDir

\* C15: when the write stream fails generatePDF rejects: the path is not
\* handed over, the file is never opened for delivery, nothing is streamed and
\* the request ends with a failure result that carries a message.
C15_WriteFailureRejects ==
  pdfStream = "error" =>
    /\ pc \in {"ctl_catch", "done"}
    /\ delivery = "none"
    /\ response.body # "pdf"
    /\ pc = "done" => (response.body = "json" /\ ~response.success /\ response.message # "")

\* C15 witness: a request answered after its write stream failed, the partial
\* file still in tmp/output
C15_Witness ==
  /\ pdfStream = "error"
  /\ pc = "done"
  /\ response.status = 500
  /\ OutputPath(pdfCalls) \in outputDir

\* the request is over: nothing more happens to res
RequestOver == pc \in {"done", "crashed"}

\* res got the complete document / res got a failure result with a message
CompleteDocument == response.body = "pdf" /\ delivery = "ended"
FailureResult == response.body = "json" /\ ~response.success /\ response.message # ""

\* C16: every request ends with exactly one outcome, the complete document or
\* a failure result with a message; never both and never neither.
C16_ExactlyOneOutcome ==
  RequestOver => (CompleteDocument /\ ~FailureResult) \/ (FailureResult /\ ~CompleteDocument)

\* request r has arrived and is not over
InFlight(r) == reqs[r].pc \notin {"arrive", "done", "crashed"}

\* the names request r has taken so far
NamesOf(r) == {reqs[r].upload, reqs[r].extractDir, reqs[r].outputPath} \ {None}

\* C17: the release step never deletes the generated file while a delivery
\* stream is reading it: whenever a request's release runs, no request, this
\* one or another, has a read stream open on that path.
C17_NoReleaseWhileReading ==
  [][\A r \in Requests :
       (reqs[r].pc = "release_wait" /\ reqs'[r].pc = "done") =>
         \A q \in Requests :
           ~(reqs[q].pc = "reading" /\ reqs[q].outputPath = reqs[r].outputPath)]_vars

\* C18: any two requests in flight use distinct upload temp files, scratch
\* directories and output paths, also when they took them in the same
\* millisecond.
C18_DistinctNames ==
  \A r, q \in Requests :
    (r # q /\ InFlight(r) /\ InFlight(q)) => NamesOf(r) \cap NamesOf(q) = {}

\* the entry at p is a document whose delivery ended, or was left behind
Reclaimable(p) == tmp[p] # NoEntry /\ tmp[p].owner \in {"delivered", "left"}

\* C19: every generated document whose delivery ended and every file or
\* directory a failed request left behind is eventually deleted, by the
\* release or by a sweep, as long as the timers keep firing.
C19_EventuallyDeleted ==
  \A p \in Paths : Reclaimable(p) ~> (tmp[p] = NoEntry)

\* C19 witness: a sweep is about to delete a scratch directory left behind
\* while a delivered document waits for its release
C19_Witness ==
  \E p, q \in Paths :
    /\ p \in sweep.doomed
    /\ tmp[p].kind = "scratch" /\ tmp[p].owner = "left"
    /\ tmp[q].kind = "output" /\ tmp[q].owner = "delivered"

\* C20: whenever a sweep deletes an entry, that entry's last modification is
\* more than one hour before the start of that sweep; in particular no entry
\* of a request in flight that was modified within the last hour is deleted.
C20_SweepDeletesOnlyOld ==
  [][\A p \in Paths :
       (p \in sweep.doomed /\ p \notin sweep'.doomed /\ tmp[p] # NoEntry) =>
         tmp[p].age > OneHourMs]_vars

\* call c takes a step / returns with this step
RelSteps(c) == rel'.calls[c] # rel.calls[c]
RelReturns(c) == RelSteps(c) /\ rel'.calls[c].pc = "returned"

\* C21: release never throws and is idempotent: no call ever throws; a call
\* on a path that is gone changes nothing; every step of a call leaves the
\* other paths alone; and when a call returns its path does not exist,
\* whether it deleted it, found it gone, or lost it to the sweep between the
\* existence check and the delete.
C21_ReleaseIdempotent ==
  /\ [](\A c \in Calls : ~rel.calls[c].threw)
  /\ [][\A c \in Calls :
          /\ RelSteps(c) => rel'.disk \in {rel.disk, rel.disk \ {rel'.calls[c].path}}
          /\ (RelSteps(c) /\ rel'.calls[c].path \notin rel.disk) => rel'.disk = rel.disk
          /\ RelReturns(c) => rel'.calls[c].path \notin rel'.disk]_vars

\* C21 witness: two calls on the same path have returned, one of them after
\* the path went between its existence check and its unlink
C21_Witness ==
  \E c, d \in Calls :
    /\ c # d
    /\ rel.calls[c].pc = "returned" /\ rel.calls[d].pc = "returned"
    /\ rel.calls[c].path = rel.calls[d].path
    /\ rel.calls[c].fn # rel.calls[d].fn
    /\ rel.calls[c].logged

\* an image has been placed on its page
Placed == layout.phase = "placed"

\* C22 as claimed: the content area is pageWidth - 100 wide and pageHeight -
\* 100 high without captions, pageHeight - 130 high with captions.
C22_Original ==
  Placed =>
    /\ layout.area.width = QSub(layout.page.width, QInt(100))
    /\ layout.area.height = QSub(layout.page.height, QInt(IF layout.captions THEN 130 ELSE 100))

\* C22: the content area used for scale-to-fit is pageWidth - 100 wide and
\* pageHeight - 150 high, with and without captions.
C22_Amended ==
  Placed =>
    /\ layout.area.width = QSub(layout.page.width, QInt(100))
    /\ layout.area.height = QSub(layout.page.height, QInt(150))

\* C22 witness: an image placed with captions on an A4 page
C22_Witness ==
  /\ Placed
  /\ layout.captions
  /\ layout.page = PageOf("a4")
  /\ layout.area.height = Q(69189, 100)

\* the native size of the placed image fits the area used for scaling
FitsArea ==
  /\ QLeq(QInt(layout.img.width), layout.area.width)
  /\ QLeq(QInt(layout.img.height), layout.area.height)

\* C23: an image whose native width and height are both no larger than the
\* content area is placed at exactly its native size, and no image is placed
\* wider or higher than its native size.
C23_NoUpscaling ==
  Placed =>
    /\ QLeq(layout.size.width, QInt(layout.img.width))
    /\ QLeq(layout.size.height, QInt(layout.img.height))
    /\ FitsArea =>
         /\ layout.size.width = QInt(layout.img.width)
         /\ layout.size.height = QInt(layout.img.height)

\* C23 witness: an image exactly as wide as the area of a LETTER page is
\* placed at its native size
C23_Witness ==
  /\ Placed
  /\ layout.page = PageOf("letter")
  /\ layout.img = [width |-> 512, height |-> 642]
  /\ layout.size = [width |-> QInt(512), height |-> QInt(642)]

\* min(areaWidth / imgWidth, areaHeight / imgHeight)
ClaimedRatio ==
  QMin(QDiv(layout.area.width, QInt(layout.img.width)),
       QDiv(layout.area.height, QInt(layout.img.height)))

\* C24: an image whose native width or height exceeds the content area is
\* scaled in both dimensions by min(areaWidth/imgWidth, areaHeight/imgHeight):
\* it fits the area, touches it in at least one dimension and keeps its
\* aspect ratio.
C24_ScaleToFit ==
  (Placed /\ ~FitsArea) =>
    /\ layout.size.width = QMul(QInt(layout.img.width), ClaimedRatio)
    /\ layout.size.height = QMul(QInt(layout.img.height), ClaimedRatio)
    /\ QLeq(layout.size.width, layout.area.width)
    /\ QLeq(layout.size.height, layout.area.height)
    /\ \/ layout.size.width = layout.area.width
       \/ layout.size.height = layout.area.height
    /\ QMul(layout.size.width, QInt(layout.img.height))
         = QMul(layout.size.height, QInt(layout.img.width))

\* C24 witness: an image too high only, scaled down to the height of the area
C24_Witness ==
  /\ Placed
  /\ layout.page = PageOf("a4")
  /\ layout.img = [width |-> 400, height |-> 3000]
  /\ layout.size.height = layout.area.height
  /\ QLess(layout.size.width, QInt(400))

\* half of a length
Half(a) == QDiv(a, QInt(2))

\* the bottom margin C28 names: 50 units, 80 with captions
BottomMargin == QInt(IF layout.captions THEN 80 ELSE 50)

\* C28: the centre of the placed image is at pageWidth/2 horizontally and,
\* vertically, at the midpoint between the top margin of 50 and the bottom
\* margin (50, or 80 with captions).
C28_Centred ==
  Placed =>
    /\ QAdd(layout.at.x, Half(layout.size.width)) = Half(layout.page.width)
    /\ QAdd(layout.at.y, Half(layout.size.height))
         = Half(QAdd(QInt(50), QSub(layout.page.height, BottomMargin)))

\* C28 witness: a small image on a captioned LEGAL page, centred at
\* (306, 489)
C28_Witness ==
  /\ Placed
  /\ layout.captions
  /\ layout.page = PageOf("legal")
  /\ layout.img = [width |-> 60, height |-> 48]
  /\ layout.at = [x |-> QInt(276), y |-> QInt(465)]

\* C29: on a page wider than 100 and higher than 150 the placed rectangle
\* lies inside the margins of 50, and with captions the caption position
\* y + height + 10 is above the footer position pageHeight - 30 and below
\* the image.
C29_InsideMargins ==
  (/\ Placed
   /\ QLess(QInt(100), layout.page.width)
   /\ QLess(QInt(150), layout.page.height)) =>
    LET right  == QAdd(layout.at.x, layout.size.width)
        bottom == QAdd(layout.at.y, layout.size.height)
    IN  /\ QLeq(QInt(50), layout.at.x)
        /\ QLeq(QInt(50), layout.at.y)
        /\ QLeq(right, QSub(layout.page.width, QInt(50)))
        /\ QLeq(bottom, QSub(layout.page.height, QInt(50)))
        /\ QLess(bottom, layout.footerY)
        /\ layout.captions =>
             /\ QLess(bottom, layout.captionY)
             /\ QLess(layout.captionY, layout.footerY)

\* C29 witness: the largest image on the smallest page, with captions: it
\* fills the height of the area, starts at y = 60 and its caption is 50
\* above the footer
C29_Witness ==
  /\ Placed
  /\ layout.captions
  /\ layout.page = PageOf("a8")
  /\ layout.img = [width |-> 1, height |-> 3000]
  /\ layout.at.y = QInt(60)
  /\ QSub(layout.footerY, layout.captionY) = QInt(50)

\* every image built so far: by extractAndProcessImages, and by processFiles
\* (what generatePDF is given)
ImagesBuilt ==
  {zipImages[n] : n \in 1..Len(zipImages)}
    \cup {processedImages[n] : n \in 1..Len(processedImages)}

\* sharp reports both dimensions of these bytes
HasDimensions(data) == data.width > 0 /\ data.height > 0

\* the upload or the archive entry an image was made from
SourceOf(img) ==
  IF Len(img.buffer.of) = 1 THEN files[img.buffer.of[1]]
  ELSE files[img.buffer.of[1]].data.entries[img.buffer.of[2]]

\* C25: every ProcessedImage that exists has width > 0 and height > 0, and
\* a source whose dimensions cannot be determined yields no image.
C25_PositiveDimensions ==
  \A img \in ImagesBuilt :
    /\ img.width > 0
    /\ img.height > 0
    /\ HasDimensions(SourceOf(img).data)

\* C25 witness: a batch of a loose image without height and an archive with
\* an entry without width has been processed, and one image came out of it
C25_Witness ==
  /\ AfterProcessFiles
  /\ Len(files) = 2
  /\ files[1].data = ImgNoHeight
  /\ files[2].data.kind = "zip"
  /\ \E n \in 1..Len(files[2].data.entries) : files[2].data.entries[n].data = ImgNoDims
  /\ Len(processedImages) = 1

\* the format families C27 names
FamilyOfType(mimetype) ==
  CASE mimetype \in {"image/jpeg", "image/jpg"} -> "jpeg"
    [] mimetype = "image/png" -> "png"
    [] mimetype = "image/webp" -> "webp"
    [] OTHER -> "other"

FamilyOfExtension(ext) ==
  CASE ToLowerCase(ext) \in {".jpg", ".jpeg"} -> "jpeg"
    [] ToLowerCase(ext) = ".png" -> "png"
    [] ToLowerCase(ext) = ".webp" -> "webp"
    [] OTHER -> "other"

\* what a loose upload or an archive entry is declared to be
DeclaredFamily(img) ==
  IF Len(img.buffer.of) = 1 THEN FamilyOfType(SourceOf(img).mimetype)
  ELSE FamilyOfExtension(SourceOf(img).ext)

\* jpeg gives jpeg, png gives png, webp gives webp, anything else gives jpeg
ClaimedEncoder(family) == IF family = "other" THEN "jpeg" ELSE family

\* C27: the encoder of every processed image is the one of its declared
\* format family (content type of a loose upload, extension of an archive
\* entry): jpeg, png and webp give themselves, every other format gives jpeg.
C27_EncoderFromDeclaredFormat ==
  \A img \in ImagesBuilt : img.buffer.enc = ClaimedEncoder(DeclaredFamily(img))

\* C27 witness: a PNG image declared image/jpeg has been encoded as jpeg,
\* next to a .gif entry encoded as jpeg and a .webp entry encoded as webp
C27_Witness ==
  /\ \E img \in ImagesBuilt :
       /\ SourceOf(img) = Upload(".png", "image/jpeg", TRUE, ImgAs("png"))
       /\ img.buffer.enc = "jpeg"
  /\ \E img \in ImagesBuilt :
       /\ Len(img.buffer.of) = 2 /\ SourceOf(img).ext = ".gif" /\ img.buffer.enc = "jpeg"
  /\ \E img \in ImagesBuilt :
       /\ Len(img.buffer.of) = 2 /\ SourceOf(img).ext = ".webp" /\ img.buffer.enc = "webp"

\* path.basename(relativePath) of the entry an image was made from
FileNameOf(img) == <<SourceOf(img).base, SourceOf(img).ext>>

\* the upload being extracted holds two image entries of one base name in
\* different folders, and its entry loop is over
TwoOfOneName ==
  /\ pc = "zip_finally"
  /\ zipError = NoError
  /\ files[i].data.kind = "zip"
  /\ Len(files[i].data.entries) = 2
  /\ LET e1 == files[i].data.entries[1]
         e2 == files[i].data.entries[2]
     IN  /\ "base" \in DOMAIN e1 /\ "base" \in DOMAIN e2
         /\ e1.base = e2.base /\ e1.ext = e2.ext
         /\ e1.folder # e2.folder
         /\ ExtractEntry(e1, <<i, 1>>) # <<>>
         /\ ExtractEntry(e2, <<i, 2>>) # <<>>

\* C26 as claimed: of two image entries with the same base filename in
\* different folders exactly one image is contributed, the later entry.
C26_Original ==
  TwoOfOneName =>
    /\ Len(zipImages) = 1
    /\ zipImages[1].buffer.of = <<i, 2>>

\* C26: two image entries with the same base filename in different folders
\* both contribute an image, in enumeration order, under the same filename.
C26_Amended ==
  TwoOfOneName =>
    /\ Len(zipImages) = 2
    /\ zipImages[1].buffer.of = <<i, 1>>
    /\ zipImages[2].buffer.of = <<i, 2>>
    /\ FileNameOf(zipImages[1]) = FileNameOf(zipImages[2])

\* C26 witness: a/photo.jpg and b/photo.jpg have both been pushed
C26_Witness ==
  /\ TwoOfOneName
  /\ Len(zipImages) = 2
  /\ FileNameOf(zipImages[1]) = <<"photo", ".jpg">>
  /\ SourceOf(zipImages[1]).folder = "a"
  /\ SourceOf(zipImages[2]).folder = "b"

\* C30: every image processFiles returns to the controller is encoded as
\* JPEG or PNG, the formats doc.image embeds, and no image makes the
\* composition of the document fail.
C30_OnlyEmbeddableImages ==
  /\ AfterProcessFiles =>
       \A n \in 1..Len(processedImages) : Embeddable(processedImages[n].buffer.enc)
  /\ \A n \in 1..Len(pages) : pages[n] # BlankPage
====
